---- MODULE Spec2Model ----
(***************************************************************************)
(* Kanban board (LuzGuilherme/kanban-safira): the Board component's task   *)
(* store, its drag / form / quick-add / delete handlers, the realtime      *)
(* merge handler and the backend tables they write.                        *)
(*                                                                         *)
(* A handler is an async function: it runs up to its next `await`, the     *)
(* awaited backend request takes effect on the backend, and the handler    *)
(* continues in a later step.  Each action below is one such segment: the  *)
(* code that follows the previous await together with the request it       *)
(* issues next.  One user handler is in flight at a time (h); realtime     *)
(* notifications and fetch responses interleave with its segments.         *)
(***************************************************************************)
EXTENDS Integers, Sequences, FiniteSets, TLC

(***************************************************************************)
(* Bounds                                                                  *)
(***************************************************************************)
MaxOps == 2         \* user operations in a session
MaxFaults == 2      \* backend requests that are rejected
MaxDeliveries == 5  \* deliveries of the notifications of one history

(***************************************************************************)
(* Types (src/components/Board.tsx imports them from lib/types)            *)
(***************************************************************************)
COLUMNS == <<"todo", "in_progress", "done">>
TaskStatus == {"todo", "in_progress", "done"}
undefined == "undefined"
NULL == "NULL"
NoTime == 0          \* a null timestamp (completed_at)
NoDate == <<>>       \* a null due_date

(***************************************************************************)
(* Sequence helpers                                                        *)
(***************************************************************************)
\* tasks.filter((t) => t.status === status)
ByStatus(s, status) == SelectSeq(s, LAMBDA t : t.status = status)

\* tasks.find((t) => t.id === id): index of the first match, 0 if none
FindIndex(s, id) ==
    IF \E i \in 1..Len(s) : s[i].id = id
    THEN CHOOSE i \in 1..Len(s) :
            s[i].id = id /\ \A j \in 1..(i - 1) : s[j].id # id
    ELSE 0

HasId(s, id) == FindIndex(s, id) # 0
Find(s, id) == s[FindIndex(s, id)]

\* insertion of t into a list sorted by position, after its equals (stable)
RECURSIVE InsertByPosition(_, _)
InsertByPosition(t, s) ==
    IF s = <<>> THEN <<t>>
    ELSE IF t.position < Head(s).position THEN <<t>> \o s
    ELSE <<Head(s)>> \o InsertByPosition(t, Tail(s))

\* .sort((a, b) => a.position - b.position): a stable sort
RECURSIVE SortByPosition(_)
SortByPosition(s) ==
    IF s = <<>> THEN <<>>
    ELSE InsertByPosition(s[Len(s)], SortByPosition(SubSeq(s, 1, Len(s) - 1)))

RECURSIVE MaxOf(_)
MaxOf(S) ==
    LET x == CHOOSE y \in S : TRUE IN
    IF S = {x} THEN x
    ELSE LET m == MaxOf(S \ {x}) IN IF x > m THEN x ELSE m

\* group.length > 0 ? Math.max(...group.map((t) => t.position)) : -1
maxPosition(group) ==
    IF Len(group) > 0 THEN MaxOf({group[i].position : i \in 1..Len(group)})
    ELSE -1

\* arrayMove of @dnd-kit/sortable: splice the element out of `from` and
\* back in at `to` (a negative `to` counts from the end of the array)
RemoveAt(s, i) == SubSeq(s, 1, i - 1) \o SubSeq(s, i + 1, Len(s))
InsertAt(s, i, x) == SubSeq(s, 1, i - 1) \o <<x>> \o SubSeq(s, i, Len(s))

\* a reorder that exchanges the two tasks
arrayMoveSwapped(s, from, to) ==
    [k \in 1..Len(s) |-> IF k = from THEN s[to] ELSE IF k = to THEN s[from] ELSE s[k]]

arrayMove(s, from, to) ==
    InsertAt(RemoveAt(s, from), IF to < 1 THEN Len(s) + to ELSE to, s[from])

(***************************************************************************)
(* Calendar arithmetic of getNextDueDate.  A date is <<year, month, day>>. *)
(***************************************************************************)
IsLeap(y) == (y % 4 = 0 /\ y % 100 # 0) \/ y % 400 = 0

DaysInMonth(y, m) ==
    IF m = 2 THEN (IF IsLeap(y) THEN 29 ELSE 28)
    ELSE IF m \in {4, 6, 9, 11} THEN 30 ELSE 31

NextDay(d) ==
    IF d[3] < DaysInMonth(d[1], d[2]) THEN <<d[1], d[2], d[3] + 1>>
    ELSE IF d[2] < 12 THEN <<d[1], d[2] + 1, 1>>
    ELSE <<d[1] + 1, 1, 1>>

PrevDay(d) ==
    IF d[3] > 1 THEN <<d[1], d[2], d[3] - 1>>
    ELSE IF d[2] > 1 THEN <<d[1], d[2] - 1, DaysInMonth(d[1], d[2] - 1)>>
    ELSE <<d[1] - 1, 12, 31>>

DateLess(a, b) ==
    \/ a[1] < b[1]
    \/ a[1] = b[1] /\ a[2] < b[2]
    \/ a[1] = b[1] /\ a[2] = b[2] /\ a[3] < b[3]

\* date-fns addDays: date.setDate(date.getDate() + amount)
RECURSIVE addDays(_, _)
addDays(d, amount) ==
    IF amount = 0 THEN d ELSE addDays(NextDay(d), amount - 1)

\* date-fns addWeeks: addDays(date, amount * 7)
addWeeks(d, amount) == addDays(d, amount * 7)

\* date-fns addMonths(date, 1): the same day of the next month, or that
\* month's last day when the day does not exist in it
addMonths1(d) ==
    LET y == IF d[2] = 12 THEN d[1] + 1 ELSE d[1]
        m == IF d[2] = 12 THEN 1 ELSE d[2] + 1
        daysInMonth == DaysInMonth(y, m)
    IN  IF d[3] >= daysInMonth THEN <<y, m, daysInMonth>> ELSE <<y, m, d[3]>>

\* The client's time zone: the hours its wall clock is ahead of UTC at a
\* local date and hour.  "Lisbon" follows the 2024 summer-time rule
\* (UTC+1 from 31 March 01:00 UTC to 27 October 01:00 UTC).
TimeZones == {"UTC", "NewYork", "Lisbon"}

LocalOffset(tz, d, hour) ==
    IF tz = "UTC" THEN 0
    ELSE IF tz = "NewYork" THEN -5
    ELSE IF /\ d[1] = 2024
            /\ (DateLess(<<2024, 3, 31>>, d) \/ (d = <<2024, 3, 31>> /\ hour >= 2))
            /\ (DateLess(d, <<2024, 10, 27>>) \/ (d = <<2024, 10, 27>> /\ hour < 2))
         THEN 1 ELSE 0

\* offset in force at the instant 00:00 UTC of date d
UtcOffset(tz, d) ==
    IF tz = "UTC" THEN 0
    ELSE IF tz = "NewYork" THEN -5
    ELSE IF /\ d[1] = 2024
            /\ DateLess(<<2024, 3, 31>>, d)
            /\ \lnot DateLess(<<2024, 10, 27>>, d)
         THEN 1 ELSE 0

\* new Date("yyyy-mm-dd") is 00:00 UTC of that date; the date-fns functions
\* move the local wall-clock date; toISOString().split('T')[0] is the UTC
\* date of the result.
getNextDueDate(currentDueDate, recurrence, tz) ==
    LET off0 == UtcOffset(tz, currentDueDate)
        localDate == IF off0 < 0 THEN PrevDay(currentDueDate) ELSE currentDueDate
        localHour == IF off0 < 0 THEN 24 + off0 ELSE off0
        moved == IF recurrence = "daily" THEN addDays(localDate, 1)
                 ELSE IF recurrence = "weekly" THEN addWeeks(localDate, 1)
                 ELSE addMonths1(localDate)
        utcHour == localHour - LocalOffset(tz, moved, localHour)
    IN  IF recurrence \notin {"daily", "weekly", "monthly"} THEN currentDueDate
        ELSE IF utcHour < 0 THEN PrevDay(moved)
        ELSE IF utcHour >= 24 THEN NextDay(moved)
        ELSE moved

(***************************************************************************)
(* State                                                                   *)
(***************************************************************************)
VARIABLES
    db,                 \* public.tasks: id -> row
    nextId,             \* next id the backend allocates
    now,                \* the clock (new Date(), now())
    activity_log,       \* public.activity_log, append-only
    channel,            \* realtime notifications not yet delivered
    fetches,            \* fetchTasks requests whose response is pending
    faults,             \* backend requests rejected so far
    ops,                \* user operations so far
    tasks,              \* Board: const [tasks, setTasks] = useState<Task[]>([])
    loading,            \* Board: const [loading, setLoading] = useState(true)
    previousStatusRef,  \* Board: useRef<Map<string, TaskStatus>>
    toasts,             \* the notifications shown with toast.success / toast.error
    confetti,           \* id -> the times fireConfetti() ran for its UPDATE
    h,                  \* the user handler in flight and its locals
    isModalOpen,        \* Board: const [isModalOpen, setIsModalOpen] = useState(false)
    filterAssignee,     \* Board: useState<Assignee | 'all'>('all')
    filterTag,          \* Board: useState<TagId | 'all'>('all')
    activeTask,         \* Board: the id of the task being dragged, 0 for null
    isDragging,         \* Board: const [isDragging, setIsDragging] = useState(false)
    dndKey              \* Board: const [dndKey, setDndKey] = useState(0)

vars == <<db, nextId, now, activity_log, channel, fetches, faults, ops,
          tasks, loading, previousStatusRef, toasts, confetti, h,
          isModalOpen, filterAssignee, filterTag, activeTask, isDragging, dndKey>>

backend == <<db, nextId, now, activity_log, channel>>
local == <<tasks, loading, previousStatusRef>>
ui == <<toasts, confetti>>
filters == <<filterAssignee, filterTag>>
dragState == <<activeTask, isDragging>>
screen == <<isModalOpen, filters, dragState, dndKey>>

\* toast.success(message), toast.error(message)
Toast(type, message) == [type |-> type, message |-> message]

Idle == [pc |-> "idle"]

\* { ...t, ...patch }: the fields of patch override those of t
Merge(t, patch) ==
    [f \in DOMAIN t |-> IF f \in DOMAIN patch THEN patch[f] ELSE t[f]]

\* prev.map((t) => (t.id === id ? f(t) : t)) with f the merge of a patch
MapMerge(s, id, patch) ==
    [i \in 1..Len(s) |-> IF s[i].id = id THEN Merge(s[i], patch) ELSE s[i]]

\* prev.map((t) => (t.id === row.id ? row : t))
MapReplace(s, row) ==
    [i \in 1..Len(s) |-> IF s[i].id = row.id THEN row ELSE s[i]]

\* a filter with the test inverted: prev.filter((t) => t.id === id)
WithoutIdInverted(s, id) == SelectSeq(s, LAMBDA t : t.id = id)

\* prev.filter((t) => t.id !== id)
WithoutId(s, id) == SelectSeq(s, LAMBDA t : t.id # id)

(***************************************************************************)
(* The backend (supabase): row writes and the notifications they publish   *)
(***************************************************************************)
Notification(eventType, row) == [eventType |-> eventType, row |-> row]

\* .from('tasks').insert({...}).select().single(): the row as stored
InsertedRow(fields) ==
    [id |-> nextId,
     title |-> fields.title,
     description |-> fields.description,
     status |-> fields.status,
     priority |-> fields.priority,
     assignee |-> fields.assignee,
     due_date |-> fields.due_date,
     tags |-> fields.tags,
     recurrence |-> fields.recurrence,
     position |-> fields.position,
     updated_at |-> now,
     completed_at |-> NoTime]

\* an update without its filter: .from('tasks').update(patch)
UpdatedDbEveryRow(id, patch) == [i \in DOMAIN db |-> Merge(db[i], patch)]

\* .from('tasks').update(patch).eq('id', id)
UpdatedDb(id, patch) ==
    IF id \in DOMAIN db THEN [db EXCEPT ![id] = Merge(db[id], patch)] ELSE db

UpdatedChannel(id, patch) ==
    IF id \in DOMAIN db
    THEN Append(channel, Notification("UPDATE", Merge(db[id], patch)))
    ELSE channel

\* .from('tasks').delete().eq('id', id)
DeletedDb(id) == [i \in DOMAIN db \ {id} |-> db[i]]

DeletedChannel(id) ==
    IF id \in DOMAIN db
    THEN Append(channel, Notification("DELETE", [id |-> id]))
    ELSE channel

\* logActivity(taskId, action, userName, details)
logActivity(taskId, action, details) ==
    Append(activity_log, [task_id |-> taskId, action |-> action, details |-> details])

NoDetails == [none |-> TRUE]

\* .select('*').order('position', { ascending: true }): the rows in
\* ascending position; rows of equal position come in any order
Orderings ==
    LET n == Cardinality(DOMAIN db) IN
    {s \in [1..n -> DOMAIN db] :
        /\ \A i, j \in 1..n : i # j => s[i] # s[j]
        /\ \A i, j \in 1..n : i < j => db[s[i]].position <= db[s[j]].position}

Selected == {[i \in 1..Len(s) |-> db[s[i]]] : s \in Orderings}

(***************************************************************************)
(* Init: the Board has just mounted on a table that holds two tasks made   *)
(* in an earlier session (a recurring one from the modal, one from quick   *)
(* add); its initial fetchTasks() is under way.                            *)
(***************************************************************************)
SeedRow(id, due_date, recurrence) ==
    [id |-> id, title |-> <<"A">>, description |-> NULL, status |-> "todo",
     priority |-> "medium", assignee |-> "guilherme", due_date |-> due_date,
     tags |-> <<>>, recurrence |-> recurrence, position |-> id - 1,
     updated_at |-> 0, completed_at |-> NoTime]

SeedDb ==
    (1 :> SeedRow(1, <<2024, 1, 15>>, "monthly")) @@ (2 :> SeedRow(2, NoDate, "none"))

NumSeeds == Cardinality(DOMAIN SeedDb)

\* the ids of the seed rows, of a row made before the operations counted
\* by ops and of the rows those operations can insert
Ids == 1..(NumSeeds + 1 + MaxOps)

\* the useState initial values of the modal, filter and drag state
InitialScreen ==
    /\ isModalOpen = FALSE
    /\ filterAssignee = "all"
    /\ filterTag = "all"
    /\ activeTask = 0
    /\ isDragging = FALSE
    /\ dndKey = 0

Mounted ==
    /\ nextId = NumSeeds + 1
    /\ now = 1
    /\ activity_log = <<>>
    /\ channel = <<>>
    /\ faults = 0
    /\ ops = 0
    /\ tasks = <<>>
    /\ loading = TRUE
    /\ previousStatusRef = [i \in Ids |-> undefined]
    /\ toasts = <<>>
    /\ confetti = [i \in Ids |-> 0]
    /\ h = Idle
    /\ InitialScreen

Init ==
    /\ db = SeedDb
    /\ fetches = <<[error |-> FALSE, data |-> <<SeedDb[1], SeedDb[2]>>]>>
    /\ Mounted

(***************************************************************************)
(* fetchTasks (initial load, refresh button, failed delete)                *)
(***************************************************************************)
FetchOk(data) == [error |-> FALSE, data |-> data]
FetchError == [error |-> TRUE, data |-> <<>>]

\* the request reaches the backend, which reads the table or fails
fetchTasks ==
    /\ ops < MaxOps
    /\ ~isModalOpen
    /\ ops' = ops + 1
    /\ \/ /\ \E data \in Selected : fetches' = Append(fetches, FetchOk(data))
          /\ faults' = faults
       \/ /\ faults < MaxFaults
          /\ faults' = faults + 1
          /\ fetches' = Append(fetches, FetchError)
    /\ UNCHANGED <<backend, local, ui, h, screen>>

\* a fetch that clears the loading indicator when the request failed
fetchTasksResponseClearing ==
    \E k \in 1..Len(fetches) :
        LET resp == fetches[k] IN
        /\ fetches' = RemoveAt(fetches, k)
        /\ IF resp.error
           THEN /\ loading' = FALSE
                /\ UNCHANGED <<tasks, previousStatusRef>>
           ELSE /\ previousStatusRef' =
                     [i \in Ids |->
                        IF HasId(resp.data, i) THEN Find(resp.data, i).status
                        ELSE previousStatusRef[i]]
                /\ tasks' = resp.data
                /\ loading' = FALSE
        /\ UNCHANGED <<backend, faults, ops, ui, h, screen>>

\* the response arrives
fetchTasksResponse ==
    \E k \in 1..Len(fetches) :
        LET resp == fetches[k] IN
        /\ fetches' = RemoveAt(fetches, k)
        /\ IF resp.error
           THEN UNCHANGED local
           ELSE /\ previousStatusRef' =
                     [i \in Ids |->
                        IF HasId(resp.data, i) THEN Find(resp.data, i).status
                        ELSE previousStatusRef[i]]
                /\ tasks' = resp.data
                /\ loading' = FALSE
        /\ UNCHANGED <<backend, faults, ops, ui, h, screen>>

(***************************************************************************)
(* Realtime merge handler: the 'postgres_changes' callback                 *)
(***************************************************************************)
\* an INSERT handler that adds the task and does not record its status
RealtimeInsertUntracked ==
    /\ channel # <<>>
    /\ Head(channel).eventType = "INSERT"
    /\ LET newTask == Head(channel).row IN
       /\ previousStatusRef' = previousStatusRef
       /\ tasks' = Append(tasks, newTask)
    /\ channel' = Tail(channel)
    /\ UNCHANGED <<db, nextId, now, activity_log, fetches, faults, ops, loading, ui, h, screen>>

RealtimeInsert ==
    /\ channel # <<>>
    /\ Head(channel).eventType = "INSERT"
    /\ LET newTask == Head(channel).row IN
       /\ previousStatusRef' = [previousStatusRef EXCEPT ![newTask.id] = newTask.status]
       /\ tasks' = Append(tasks, newTask)
    /\ channel' = Tail(channel)
    /\ UNCHANGED <<db, nextId, now, activity_log, fetches, faults, ops, loading, ui, h, screen>>

\* an update handler without the updated_at comparison
UpdateMergedAlways(prev, updatedTask) == MapReplace(prev, updatedTask)

\* an update handler that adds the incoming row to the list, as the insert
\* handler does, instead of putting it in the place of the record held
UpdateMergedAppended(prev, updatedTask) ==
    IF HasId(prev, updatedTask.id)
       /\ Find(prev, updatedTask.id).updated_at = updatedTask.updated_at
    THEN prev
    ELSE Append(prev, updatedTask)

\* the functional update passed to setTasks
UpdateMerged(prev, updatedTask) ==
    IF HasId(prev, updatedTask.id)
       /\ Find(prev, updatedTask.id).updated_at = updatedTask.updated_at
    THEN prev
    ELSE MapReplace(prev, updatedTask)

RealtimeUpdate ==
    /\ channel # <<>>
    /\ Head(channel).eventType = "UPDATE"
    /\ LET updatedTask == Head(channel).row
           prevStatus == previousStatusRef[updatedTask.id]
       IN
       /\ confetti' = IF prevStatus # "done" /\ updatedTask.status = "done"
                      THEN [confetti EXCEPT ![updatedTask.id] = @ + 1]
                      ELSE confetti
       /\ previousStatusRef' = [previousStatusRef EXCEPT ![updatedTask.id] = updatedTask.status]
       /\ tasks' = UpdateMerged(tasks, updatedTask)
    /\ channel' = Tail(channel)
    /\ UNCHANGED <<db, nextId, now, activity_log, fetches, faults, ops, loading, toasts, h, screen>>

RealtimeDelete ==
    /\ channel # <<>>
    /\ Head(channel).eventType = "DELETE"
    /\ LET old == Head(channel).row IN
       /\ previousStatusRef' = [previousStatusRef EXCEPT ![old.id] = undefined]
       /\ tasks' = WithoutId(tasks, old.id)
    /\ channel' = Tail(channel)
    /\ UNCHANGED <<db, nextId, now, activity_log, fetches, faults, ops, loading, ui, h, screen>>

(***************************************************************************)
(* User input                                                              *)
(***************************************************************************)
\* a second set of values for the modal's title, description, priority,
\* assignee and tags fields
ContentB ==
    [title |-> <<"B">>, description |-> "d", priority |-> "high",
     assignee |-> "safira", tags |-> <<"tag">>]

\* what the user types in a title field (a string is the sequence of its
\* characters): nothing, blanks, a title, a title between blanks
RawTitles == {<<>>, <<" ">>, <<" ", " ">>, <<"A">>, <<" ", "A", " ">>}

\* what the user types over the title of an existing task
EditedTitles == {<<>>, <<" ">>, <<"B">>, <<"B", " ">>}

\* what the user changes in the modal of an existing task before Submit:
\* the status, or the content fields together with the status
FormEdits ==
    {[status |-> st] : st \in TaskStatus}
        \cup {[ContentB EXCEPT !.title = raw] @@ [status |-> "done"] :
                  raw \in EditedTitles}

\* what the user enters in the modal of a new task
CreateData ==
    {[title |-> raw, description |-> NULL, status |-> st, priority |-> "medium",
      assignee |-> "guilherme", due_date |-> <<2024, 1, 15>>, tags |-> <<>>,
      recurrence |-> "monthly"] : raw \in RawTitles, st \in {"todo"}}

\* String.prototype.trim(): the string without its leading and trailing
\* white space
RECURSIVE trimStart(_)
trimStart(s) == IF s # <<>> /\ Head(s) = " " THEN trimStart(Tail(s)) ELSE s

RECURSIVE trimEnd(_)
trimEnd(s) ==
    IF s # <<>> /\ s[Len(s)] = " " THEN trimEnd(SubSeq(s, 1, Len(s) - 1)) ELSE s

\* a submit that tests and passes on the value as it was typed
untrimmed(s) == s

trim(s) == trimEnd(trimStart(s))

(***************************************************************************)
(* handleQuickAdd: the insert, logActivity('created'), toast               *)
(***************************************************************************)
\* an insert whose rejection falls through to closeModal() instead of
\* returning
InsertTaskThenClose(fields, fromModal) ==
    LET row == InsertedRow(fields) IN
    \/ /\ db' = (row.id :> row) @@ db
       /\ nextId' = nextId + 1
       /\ now' = now + 1
       /\ channel' = Append(channel, Notification("INSERT", row))
       /\ activity_log' = logActivity(row.id, "created", NoDetails)
       /\ toasts' = Append(toasts, Toast("success", "Tarefa criada!"))
       /\ faults' = faults
       /\ isModalOpen' = IF fromModal THEN FALSE ELSE isModalOpen
    \/ /\ faults < MaxFaults
       /\ faults' = faults + 1
       /\ toasts' = Append(toasts, Toast("error", "Erro ao criar tarefa"))
       /\ isModalOpen' = IF fromModal THEN FALSE ELSE isModalOpen
       /\ UNCHANGED backend

\* the insert takes effect (the handler then logs the activity), or is
\* rejected (the handler returns after a toast)
InsertTask(fields, fromModal) ==
    LET row == InsertedRow(fields) IN
    \/ /\ db' = (row.id :> row) @@ db
       /\ nextId' = nextId + 1
       /\ now' = now + 1
       /\ channel' = Append(channel, Notification("INSERT", row))
       /\ activity_log' = logActivity(row.id, "created", NoDetails)
       /\ toasts' = Append(toasts, Toast("success", "Tarefa criada!"))
       /\ faults' = faults
       /\ isModalOpen' = IF fromModal THEN FALSE ELSE isModalOpen
    \/ /\ faults < MaxFaults
       /\ faults' = faults + 1
       /\ toasts' = Append(toasts, Toast("error", "Erro ao criar tarefa"))
       /\ UNCHANGED <<backend, isModalOpen>>

handleQuickAdd(title, status) ==
    /\ h = Idle
    /\ ops < MaxOps
    /\ ~isModalOpen
    /\ ops' = ops + 1
    /\ LET columnTasks == ByStatus(tasks, status) IN
       InsertTask([title |-> title, description |-> NULL, status |-> status,
                   priority |-> "medium", assignee |-> "guilherme",
                   due_date |-> NoDate, tags |-> <<>>, recurrence |-> "none",
                   position |-> maxPosition(columnTasks) + 1], FALSE)
    /\ UNCHANGED <<fetches, local, confetti, h, filters, dragState, dndKey>>

(***************************************************************************)
(* handleSaveTask, no data.id: create a task from the modal                *)
(***************************************************************************)
handleSaveTaskCreate(data) ==
    /\ h = Idle
    /\ ops < MaxOps
    /\ isModalOpen
    /\ ops' = ops + 1
    /\ LET columnTasks == ByStatus(tasks, data.status) IN
       InsertTask([title |-> data.title, description |-> data.description,
                   status |-> data.status, priority |-> data.priority,
                   assignee |-> data.assignee, due_date |-> data.due_date,
                   tags |-> data.tags, recurrence |-> data.recurrence,
                   position |-> maxPosition(columnTasks) + 1], TRUE)
    /\ UNCHANGED <<fetches, local, confetti, h, filters, dragState, dndKey>>

(***************************************************************************)
(* Recurrence successor (the same code in handleDragEnd and handleSaveTask)*)
(***************************************************************************)
\* task.recurrence && task.recurrence !== 'none' && task.due_date
IsRecurring(task) == task.recurrence # "none" /\ task.due_date # NoDate

\* the object passed to .insert() for the next recurring task
SuccessorFields(source, snapshot, tz) ==
    LET nextDueDate == getNextDueDate(source.due_date, source.recurrence, tz)
        todoTasks == ByStatus(snapshot, "todo")
    IN  [title |-> source.title,
         description |-> source.description,
         status |-> "todo",
         priority |-> source.priority,
         assignee |-> source.assignee,
         due_date |-> nextDueDate,
         tags |-> source.tags,
         recurrence |-> source.recurrence,
         position |-> maxPosition(todoTasks) + 1]

\* the insert of the successor takes effect, or is rejected
InsertSuccessor(source, snapshot, okPc, failedPc) ==
    \/ /\ \E tz \in TimeZones :
            LET row == InsertedRow(SuccessorFields(source, snapshot, tz)) IN
            /\ db' = (row.id :> row) @@ db
            /\ channel' = Append(channel, Notification("INSERT", row))
            /\ h' = [h EXCEPT !.pc = okPc, !.newTask = row]
       /\ nextId' = nextId + 1
       /\ now' = now + 1
       /\ faults' = faults
    \/ /\ faults < MaxFaults
       /\ faults' = faults + 1
       /\ h' = [h EXCEPT !.pc = failedPc]
       /\ UNCHANGED <<db, nextId, now, channel>>

(***************************************************************************)
(* handleDragEnd                                                           *)
(***************************************************************************)
OverColumn(status) == [column |-> status, task |-> 0]
OverTask(id) == [column |-> "", task |-> id]

\* const updates = newOrder.map((task, idx) => ({ id: task.id, position: idx }))
ReorderUpdates(newOrder) ==
    [idx \in 1..Len(newOrder) |-> [id |-> newOrder[idx].id, position |-> idx - 1]]

\* let targetStatus = ...
TargetStatus(store, activeId, over) ==
    IF over.task = 0 THEN over.column
    ELSE IF HasId(store, over.task) THEN Find(store, over.task).status
    ELSE Find(store, activeId).status

\* the updates object of a move: status, position, updated_at and, on a
\* transition into or out of done, completed_at
DragUpdates(activeTaskData, originalStatus, targetStatus, newPosition, date) ==
    LET base == [status |-> targetStatus, position |-> newPosition,
                 updated_at |-> date]
    IN  IF targetStatus = "done" /\ originalStatus # "done"
        THEN base @@ [completed_at |-> date]
        ELSE IF targetStatus # "done" /\ activeTaskData.completed_at # NoTime
        THEN base @@ [completed_at |-> NoTime]
        ELSE base

\* a drop on a column that counts the tasks of the column
NewPositionByCount(isOverColumn, columnTasks, overIndex) ==
    IF isOverColumn THEN Len(columnTasks)
    ELSE (IF overIndex >= 1 THEN overIndex - 1 ELSE Len(columnTasks))

\* a drop on a task that puts the dragged task after the last of the column
NewPositionAtEnd(isOverColumn, columnTasks, overIndex) ==
    IF isOverColumn
    THEN (IF Len(columnTasks) > 0 THEN maxPosition(columnTasks) + 1 ELSE 0)
    ELSE Len(columnTasks)

\* let newPosition, for a drop that is not a reorder: after the last task
\* of the column, or the index of the task dropped on (overIndex is the
\* index from 1, 0 when findIndex gives -1)
NewPosition(isOverColumn, columnTasks, overIndex) ==
    IF isOverColumn
    THEN (IF Len(columnTasks) > 0 THEN maxPosition(columnTasks) + 1 ELSE 0)
    ELSE (IF overIndex >= 1 THEN overIndex - 1 ELSE Len(columnTasks))

\* the handler up to its first await, for a drop on a column or on a task
\* of the store: the optimistic update, the target column and position
handleDragEnd(activeId, over) ==
    /\ h = Idle
    /\ ops < MaxOps
    /\ ~isModalOpen
    /\ activeTask' = 0
    /\ isDragging' = FALSE
    /\ ops' = ops + 1
    /\ HasId(tasks, activeId)
    /\ over.task # 0 => HasId(tasks, over.task)
    /\ LET activeTaskData == Find(tasks, activeId)
           originalStatus == previousStatusRef[activeId]
           isOverColumn == over.task = 0
           targetStatus == TargetStatus(tasks, activeId, over)
           columnTasks == SortByPosition(ByStatus(tasks, targetStatus))
           overIndex == FindIndex(columnTasks, over.task)
           activeIndex == FindIndex(columnTasks, activeId)
           newPosition == NewPosition(isOverColumn, columnTasks, overIndex)
       IN
       /\ tasks' = IF activeTaskData.status # targetStatus
                   THEN MapMerge(tasks, activeId, [status |-> targetStatus])
                   ELSE tasks
       /\ IF ~isOverColumn /\ activeIndex # 0 /\ activeIndex # overIndex
          THEN /\ h' = [pc |-> "drag_reorder", activeId |-> activeId, over |-> over,
                        columnTasks |-> columnTasks,
                        updates |-> ReorderUpdates(
                            arrayMove(columnTasks, activeIndex, overIndex)),
                        written |-> 0]
               /\ now' = now
          ELSE /\ h' = [pc |-> "drag_move", activeId |-> activeId, over |-> over,
                        tasks |-> tasks, activeTaskData |-> activeTaskData,
                        originalStatus |-> originalStatus,
                        targetStatus |-> targetStatus,
                        updates |-> DragUpdates(activeTaskData, originalStatus,
                                        targetStatus, newPosition, now),
                        newTask |-> 0]
               /\ now' = now + 1
    /\ UNCHANGED <<db, nextId, activity_log, channel, fetches, faults,
                   loading, previousStatusRef, ui, isModalOpen, filters, dndKey>>

\* one position write of the reorder loop (its result is not inspected);
\* after the last one setDndKey and return
DragReorderWrite ==
    /\ ops' = ops
    /\ h.pc = "drag_reorder"
    /\ LET update == h.updates[h.written + 1] IN
       \/ /\ db' = UpdatedDb(update.id, [position |-> update.position])
          /\ channel' = UpdatedChannel(update.id, [position |-> update.position])
          /\ faults' = faults
       \/ /\ faults < MaxFaults
          /\ faults' = faults + 1
          /\ UNCHANGED <<db, channel>>
    /\ h' = IF h.written + 1 = Len(h.updates) THEN Idle
            ELSE [h EXCEPT !.written = h.written + 1]
    /\ dndKey' = IF h.written + 1 = Len(h.updates) THEN dndKey + 1 ELSE dndKey
    /\ UNCHANGED <<nextId, now, activity_log, fetches, local, ui,
                   isModalOpen, filters, dragState>>

\* if (originalStatus && originalStatus !== targetStatus) logActivity('moved')
DragLogMoved(log) ==
    IF h.originalStatus # undefined /\ h.originalStatus # h.targetStatus
    THEN Append(log, [task_id |-> h.activeId, action |-> "moved",
                      details |-> [from |-> h.originalStatus, to |-> h.targetStatus]])
    ELSE log

\* .update(updates).eq('id', activeId), the last request of the handler
\* (its result is not inspected), after the entries of log
DragUpdate(log) ==
    /\ activity_log' = DragLogMoved(log)
    /\ \/ /\ db' = UpdatedDb(h.activeId, h.updates)
          /\ channel' = UpdatedChannel(h.activeId, h.updates)
          /\ faults' = faults
       \/ /\ faults < MaxFaults
          /\ faults' = faults + 1
          /\ UNCHANGED <<db, channel>>
    /\ h' = Idle
    /\ dndKey' = dndKey + 1
    /\ UNCHANGED <<nextId, now>>

\* from the first await of a move: logActivity('completed') and the insert
\* of the successor when the move completes a recurring task, else the
\* 'moved' entry and the update
DragMove ==
    /\ ops' = ops
    /\ h.pc = "drag_move"
    /\ IF h.targetStatus = "done" /\ h.originalStatus # "done"
       THEN IF IsRecurring(h.activeTaskData)
            THEN /\ InsertSuccessor(h.activeTaskData, h.tasks,
                                    "drag_inserted", "drag_insertFailed")
                 /\ activity_log' = logActivity(h.activeId, "completed", NoDetails)
                 /\ dndKey' = dndKey
            ELSE DragUpdate(logActivity(h.activeId, "completed", NoDetails))
       ELSE DragUpdate(activity_log)
    /\ UNCHANGED <<fetches, local, ui, isModalOpen, filters, dragState>>

\* after the insert of the successor: logActivity(newTask.id, 'created')
\* and a toast if it succeeded; then the 'moved' entry and the update
DragInserted ==
    /\ ops' = ops
    /\ h.pc \in {"drag_inserted", "drag_insertFailed"}
    /\ IF h.pc = "drag_inserted"
       THEN /\ DragUpdate(logActivity(h.newTask.id, "created",
                  [recurring |-> TRUE, from_task |-> h.activeTaskData.id]))
            /\ toasts' = Append(toasts, Toast("success", "Tarefa recorrente criada"))
       ELSE /\ DragUpdate(activity_log)
            /\ toasts' = toasts
    /\ UNCHANGED <<fetches, local, confetti, isModalOpen, filters, dragState>>

(***************************************************************************)
(* handleSaveTask with data.id: edit a task from the modal                 *)
(***************************************************************************)
\* the names pushed onto `changes`
Changes(currentTask, data) ==
    {f \in {"title", "description", "priority", "assignee", "due_date",
            "recurrence", "tags"} : currentTask[f] # data[f]}

\* const updateData = {...}, with completed_at on a transition
UpdateData(currentTask, data, date) ==
    LET base == [title |-> data.title, description |-> data.description,
                 status |-> data.status, priority |-> data.priority,
                 assignee |-> data.assignee, due_date |-> data.due_date,
                 tags |-> data.tags, recurrence |-> data.recurrence,
                 updated_at |-> date]
    IN  IF currentTask.status # "done" /\ data.status = "done"
        THEN base @@ [completed_at |-> date]
        ELSE IF data.status # "done" THEN base @@ [completed_at |-> NoTime]
        ELSE base

\* setTasks((prev) => prev.map((t) => t.id === data.id ? {...t, ...updateData} : t)),
\* toast, closeModal
SaveFinish(shown) ==
    /\ tasks' = MapMerge(tasks, h.id, h.updateData)
    /\ toasts' = Append(shown, Toast("success", "Tarefa atualizada!"))
    /\ h' = Idle
    /\ isModalOpen' = FALSE
    /\ UNCHANGED <<loading, previousStatusRef, confetti>>

\* the modal is opened on task id, the user makes the edit and submits: the
\* handler up to the response of .update(updateData).eq('id', data.id)
handleSaveTaskEdit(id, edit) ==
    /\ h = Idle
    /\ ops < MaxOps
    /\ isModalOpen
    /\ ops' = ops + 1
    /\ HasId(tasks, id)
    /\ LET currentTask == Find(tasks, id)
           form == [f \in {"title", "description", "status", "priority",
                           "assignee", "due_date", "tags", "recurrence"} |->
                        currentTask[f]]
           data == Merge(form, edit)
           updateData == UpdateData(currentTask, data, now)
       IN
       \/ /\ db' = UpdatedDb(id, updateData)
          /\ channel' = UpdatedChannel(id, updateData)
          /\ h' = [pc |-> "save_updated", id |-> id, data |-> data,
                   tasks |-> tasks, currentTask |-> currentTask,
                   updateData |-> updateData, newTask |-> 0]
          /\ UNCHANGED <<faults, toasts>>
       \/ /\ faults < MaxFaults
          /\ faults' = faults + 1
          /\ toasts' = Append(toasts, Toast("error", "Erro ao atualizar tarefa"))
          /\ UNCHANGED <<db, channel, h>>
    /\ now' = now + 1
    /\ UNCHANGED <<nextId, activity_log, fetches, local, confetti, screen>>

\* after a successful update: the activity entry; when the edit completes
\* a recurring task the insert of the successor, else the optimistic update
SaveUpdated ==
    /\ ops' = ops
    /\ h.pc = "save_updated"
    /\ IF h.currentTask.status # "done" /\ h.data.status = "done"
       THEN /\ activity_log' = logActivity(h.id, "completed", NoDetails)
            /\ IF IsRecurring(h.currentTask)
               THEN /\ InsertSuccessor(h.currentTask, h.tasks,
                                       "save_inserted", "save_insertFailed")
                    /\ UNCHANGED <<local, ui, isModalOpen>>
               ELSE /\ SaveFinish(toasts)
                    /\ UNCHANGED <<db, nextId, now, channel, faults>>
       ELSE /\ activity_log' =
                 IF h.currentTask.status # h.data.status
                 THEN logActivity(h.id, "moved",
                        [from |-> h.currentTask.status, to |-> h.data.status])
                 ELSE IF Changes(h.currentTask, h.data) # {}
                 THEN logActivity(h.id, "updated",
                        [changes |-> Changes(h.currentTask, h.data)])
                 ELSE activity_log
            /\ SaveFinish(toasts)
            /\ UNCHANGED <<db, nextId, now, channel, faults>>
    /\ UNCHANGED <<fetches, filters, dragState, dndKey>>

\* after the insert of the successor: logActivity(newTask.id, 'created')
\* and a toast if it succeeded; then the optimistic update
SaveInserted ==
    /\ ops' = ops
    /\ h.pc \in {"save_inserted", "save_insertFailed"}
    /\ activity_log' =
         IF h.pc = "save_inserted"
         THEN logActivity(h.newTask.id, "created",
                [recurring |-> TRUE, from_task |-> h.currentTask.id])
         ELSE activity_log
    /\ SaveFinish(IF h.pc = "save_inserted"
                  THEN Append(toasts, Toast("success", "Tarefa recorrente criada"))
                  ELSE toasts)
    /\ UNCHANGED <<db, nextId, now, channel, fetches, faults, filters, dragState, dndKey>>

(***************************************************************************)
(* handleDeleteTask                                                        *)
(***************************************************************************)
\* the handler up to the response of logActivity(id, 'deleted')
handleDeleteTask(id) ==
    /\ h = Idle
    /\ ops < MaxOps
    /\ ops' = ops + 1
    /\ HasId(tasks, id)
    /\ activity_log' = logActivity(id, "deleted", NoDetails)
    /\ h' = [pc |-> "delete_logged", id |-> id, fromModal |-> isModalOpen]
    /\ UNCHANGED <<db, nextId, now, channel, fetches, faults, local, ui, screen>>

\* a handler that shows the error of a rejected delete and does not fetch
DeleteLoggedWithoutFetch ==
    /\ ops' = ops
    /\ h.pc = "delete_logged"
    /\ tasks' = WithoutId(tasks, h.id)
    /\ \/ /\ db' = DeletedDb(h.id)
          /\ channel' = DeletedChannel(h.id)
          /\ toasts' = Append(toasts, Toast("success", "Tarefa eliminada!"))
          /\ isModalOpen' = IF h.fromModal THEN FALSE ELSE isModalOpen
          /\ UNCHANGED <<fetches, faults>>
       \/ /\ faults < MaxFaults
          /\ toasts' = Append(toasts, Toast("error", "Erro ao eliminar tarefa"))
          /\ faults' = faults + 1
          /\ UNCHANGED <<db, channel, fetches, isModalOpen>>
    /\ h' = Idle
    /\ UNCHANGED <<nextId, now, activity_log, loading, previousStatusRef, confetti,
                   filters, dragState, dndKey>>

\* the optimistic removal, the delete request and what follows its
\* response: a toast, or fetchTasks() when the delete was rejected
DeleteLogged ==
    /\ ops' = ops
    /\ h.pc = "delete_logged"
    /\ tasks' = WithoutId(tasks, h.id)
    /\ \/ /\ db' = DeletedDb(h.id)
          /\ channel' = DeletedChannel(h.id)
          /\ toasts' = Append(toasts, Toast("success", "Tarefa eliminada!"))
          /\ isModalOpen' = IF h.fromModal THEN FALSE ELSE isModalOpen
          /\ UNCHANGED <<fetches, faults>>
       \/ /\ faults < MaxFaults
          /\ toasts' = Append(toasts, Toast("error", "Erro ao eliminar tarefa"))
          /\ \/ /\ \E data \in Selected : fetches' = Append(fetches, FetchOk(data))
                /\ faults' = faults + 1
             \/ /\ faults + 1 < MaxFaults
                /\ fetches' = Append(fetches, FetchError)
                /\ faults' = faults + 2
          /\ UNCHANGED <<db, channel, isModalOpen>>
    /\ h' = Idle
    /\ UNCHANGED <<nextId, now, activity_log, loading, previousStatusRef, confetti,
                   filters, dragState, dndKey>>

(***************************************************************************)
(* The submit handlers of the inputs: Column's quick-add field (Enter) and *)
(* TaskModal's form                                                        *)
(***************************************************************************)
\* if (e.key === 'Enter' && quickAddValue.trim()) onQuickAdd(quickAddValue.trim())
handleQuickAddKeyDown(quickAddValue, status) ==
    /\ trim(quickAddValue) # <<>>
    /\ handleQuickAdd(trim(quickAddValue), status)

\* if (!title.trim()) return; onSave({...(task ? { id: task.id } : {}),
\* title: title.trim(), ...}): id = 0 stands for a modal without a task
handleSubmit(id, form) ==
    IF id = 0
    THEN /\ form \in CreateData
         /\ trim(form.title) # <<>>
         /\ handleSaveTaskCreate([form EXCEPT !.title = trim(form.title)])
    ELSE /\ form \in FormEdits
         /\ HasId(tasks, id)
         /\ LET title == IF "title" \in DOMAIN form THEN form.title
                         ELSE Find(tasks, id).title
            IN  /\ trim(title) # <<>>
                /\ handleSaveTaskEdit(id, [title |-> trim(title)] @@ form)

(***************************************************************************)
(* The task modal: opened from the header, a column or a card; closed with *)
(* its backdrop, its X or its Cancel button                                *)
(***************************************************************************)
\* openNewTaskModal(status, dueDate), openEditTaskModal(task)
openTaskModal ==
    /\ h = Idle
    /\ ops < MaxOps
    /\ ~isModalOpen
    /\ isModalOpen' = TRUE
    /\ UNCHANGED <<backend, fetches, faults, ops, local, ui, h, filters, dragState, dndKey>>

closeModal ==
    /\ h = Idle
    /\ isModalOpen
    /\ isModalOpen' = FALSE
    /\ UNCHANGED <<backend, fetches, faults, ops, local, ui, h, filters, dragState, dndKey>>

(***************************************************************************)
(* Next                                                                    *)
(***************************************************************************)
Overs == {OverColumn(st) : st \in TaskStatus} \cup {OverTask(i) : i \in Ids}

Next ==
    \/ fetchTasks
    \/ fetchTasksResponse
    \/ RealtimeInsert
    \/ RealtimeUpdate
    \/ RealtimeDelete
    \/ \E quickAddValue \in RawTitles, status \in TaskStatus :
          handleQuickAddKeyDown(quickAddValue, status)
    \/ \E form \in CreateData : handleSubmit(0, form)
    \/ \E activeId \in Ids, over \in Overs : handleDragEnd(activeId, over)
    \/ DragReorderWrite
    \/ DragMove
    \/ DragInserted
    \/ \E id \in Ids, form \in FormEdits : handleSubmit(id, form)
    \/ SaveUpdated
    \/ SaveInserted
    \/ \E id \in Ids : handleDeleteTask(id)
    \/ DeleteLogged
    \/ openTaskModal
    \/ closeModal

Spec == Init /\ [][Next]_vars

(***************************************************************************)
(* The same Board on a table whose recurring task has any of a set of due  *)
(* dates (month ends, a leap day, the start of summer time, a year end)    *)
(* and any recurrence: the inputs of getNextDueDate.                       *)
(***************************************************************************)
DueDates ==
    {<<2024, 1, 1>>, <<2024, 1, 31>>, <<2024, 2, 29>>, <<2024, 3, 31>>,
     <<2024, 6, 10>>, <<2024, 12, 31>>}

Recurrences == {"daily", "weekly", "monthly"}

InitDue ==
    \E due_date \in DueDates, recurrence \in Recurrences :
        LET table == (1 :> SeedRow(1, due_date, recurrence)) @@ SeedDb IN
        /\ db = table
        /\ fetches = <<[error |-> FALSE, data |-> <<table[1], table[2]>>]>>
        /\ Mounted

SpecDue == InitDue /\ [][Next]_vars

(***************************************************************************)
(* The realtime callback on its own: the Board has loaded the two tasks,   *)
(* another session has inserted a third task and, in one history, deleted  *)
(* it again; the notifications of that history reach the callback in any   *)
(* order, each at least once, up to MaxDeliveries deliveries in all.       *)
(***************************************************************************)
Task3 == [SeedRow(3, NoDate, "none") EXCEPT !.updated_at = 1]

Histories ==
    {[db |-> (3 :> Task3) @@ SeedDb,
      notifications |-> {Notification("INSERT", Task3)}],
     [db |-> SeedDb,
      notifications |-> {Notification("INSERT", Task3),
                         Notification("DELETE", [id |-> 3])}]}

InitDelivery ==
    \E history \in Histories, n \in 1..MaxDeliveries :
        \E deliveries \in [1..n -> history.notifications] :
            /\ \A x \in history.notifications : \E k \in 1..n : deliveries[k] = x
            /\ channel = deliveries
            /\ db = history.db
            /\ nextId = 4
            /\ now = 2
            /\ activity_log = <<>>
            /\ fetches = <<>>
            /\ faults = 0
            /\ ops = 0
            /\ tasks = <<SeedDb[1], SeedDb[2]>>
            /\ loading = FALSE
            /\ previousStatusRef =
                   [i \in Ids |-> IF i \in DOMAIN SeedDb THEN SeedDb[i].status
                                  ELSE undefined]
            /\ toasts = <<>>
            /\ confetti = [i \in Ids |-> 0]
            /\ h = Idle
            /\ InitialScreen

NextDelivery == RealtimeInsert \/ RealtimeDelete

SpecDelivery == InitDelivery /\ [][NextDelivery]_vars

(***************************************************************************)
(* The same Board later in a session: the user has made a third task with  *)
(* quick-add and pressed refresh, the response of the fetch has arrived    *)
(* and the INSERT notification of the task has not been delivered yet.     *)
(***************************************************************************)
InitAdded ==
    /\ db = (3 :> Task3) @@ SeedDb
    /\ nextId = 4
    /\ now = 2
    /\ activity_log = <<[task_id |-> 3, action |-> "created", details |-> NoDetails]>>
    /\ channel = <<Notification("INSERT", Task3)>>
    /\ fetches = <<>>
    /\ faults = 0
    /\ ops = 0
    /\ tasks = <<SeedDb[1], SeedDb[2], Task3>>
    /\ loading = FALSE
    /\ previousStatusRef = [i \in Ids |-> IF i <= 3 THEN "todo" ELSE undefined]
    /\ toasts = <<Toast("success", "Tarefa criada!")>>
    /\ confetti = [i \in Ids |-> 0]
    /\ h = Idle
    /\ InitialScreen

SpecAdded == InitAdded /\ [][Next]_vars

(***************************************************************************)
(* The drag gesture in two steps, as dnd-kit reports it: onDragStart when  *)
(* a card is picked up, onDragEnd when it is released, with realtime       *)
(* notifications delivered in between.                                     *)
(***************************************************************************)
\* event.over of a card released outside every drop target: null
NoOver == [column |-> "", task |-> 0]

\* const task = tasks.find(...); setActiveTask(task || null); setIsDragging(true)
handleDragStart(id) ==
    /\ h = Idle
    /\ ops < MaxOps
    /\ ~isModalOpen
    /\ ~isDragging
    /\ HasId(tasks, id)
    /\ activeTask' = id
    /\ isDragging' = TRUE
    /\ UNCHANGED <<backend, fetches, faults, ops, local, ui, h, isModalOpen,
                   filters, dndKey>>

\* an early return that logs the drag before it returns
handleDragEndOutsideLogged(activeId, over) ==
    /\ h = Idle
    /\ ops < MaxOps
    /\ ops' = ops + 1
    /\ over = NoOver \/ ~HasId(tasks, activeId)
    /\ activeTask' = 0
    /\ isDragging' = FALSE
    /\ dndKey' = dndKey + 1
    /\ activity_log' = logActivity(activeId, "moved", NoDetails)
    /\ UNCHANGED <<db, nextId, now, channel, fetches, faults, local, ui, h,
                   isModalOpen, filters>>

\* handleDragEnd up to its early returns: if (!over) and if (!activeTaskData),
\* each after setActiveTask(null), setIsDragging(false) and with setDndKey
handleDragEndOutside(activeId, over) ==
    /\ h = Idle
    /\ ops < MaxOps
    /\ ops' = ops + 1
    /\ over = NoOver \/ ~HasId(tasks, activeId)
    /\ activeTask' = 0
    /\ isDragging' = FALSE
    /\ dndKey' = dndKey + 1
    /\ UNCHANGED <<backend, fetches, faults, local, ui, h, isModalOpen, filters>>

\* <DndContext onDragEnd={handleDragEnd}>: event.active is the card picked up
onDragEnd(over) ==
    /\ isDragging
    /\ IF over = NoOver \/ ~HasId(tasks, activeTask)
       THEN handleDragEndOutside(activeTask, over)
       ELSE handleDragEnd(activeTask, over)

\* the Board has loaded the two tasks; another session has deleted some of
\* them and the DELETE notifications are on their way
InitDrag ==
    \E deleted \in SUBSET DOMAIN SeedDb :
        /\ db = [id \in DOMAIN SeedDb \ deleted |-> SeedDb[id]]
        /\ channel = SelectSeq(<<Notification("DELETE", [id |-> 1]),
                                 Notification("DELETE", [id |-> 2])>>,
                               LAMBDA n : n.row.id \in deleted)
        /\ nextId = NumSeeds + 1
        /\ now = 1
        /\ activity_log = <<>>
        /\ fetches = <<>>
        /\ faults = 0
        /\ ops = 0
        /\ tasks = <<SeedDb[1], SeedDb[2]>>
        /\ loading = FALSE
        /\ previousStatusRef =
               [i \in Ids |-> IF i \in DOMAIN SeedDb THEN SeedDb[i].status
                              ELSE undefined]
        /\ toasts = <<>>
        /\ confetti = [i \in Ids |-> 0]
        /\ h = Idle
        /\ InitialScreen

NextDrag ==
    \/ \E id \in Ids : handleDragStart(id)
    \/ \E over \in Overs \cup {NoOver} : onDragEnd(over)
    \/ DragReorderWrite
    \/ DragMove
    \/ DragInserted
    \/ RealtimeInsert
    \/ RealtimeUpdate
    \/ RealtimeDelete

SpecDrag == InitDrag /\ [][NextDrag]_vars

(***************************************************************************)
(* The derived views of a render: the filtered tasks, their groups and the *)
(* counts of the header                                                    *)
(***************************************************************************)
\* a null tags column (tags: string[] | null)
NoTags == <<NULL>>

TagIds == {"A", "B"}

\* Array.prototype.includes
includes(array, x) == \E i \in 1..Len(array) : array[i] = x

\* a filter that keeps a task when either of the two matches
filteredTasksEither(store, assignee, tag) ==
    SelectSeq(store, LAMBDA t :
        LET matchesAssignee == assignee = "all" \/ t.assignee = assignee
            matchesTag == tag = "all" \/ (t.tags # NoTags /\ includes(t.tags, tag))
        IN  matchesAssignee \/ matchesTag)

\* const filteredTasks = tasks.filter(...)
filteredTasks(store, assignee, tag) ==
    SelectSeq(store, LAMBDA t :
        LET matchesAssignee == assignee = "all" \/ t.assignee = assignee
            matchesTag == tag = "all" \/ (t.tags # NoTags /\ includes(t.tags, tag))
        IN  matchesAssignee /\ matchesTag)

\* const tasksByStatus = COLUMNS.reduce(...)
tasksByStatus(filtered) ==
    [col \in TaskStatus |-> SortByPosition(ByStatus(filtered, col))]

totalTasks(filtered) == Len(filtered)

completedTasks(filtered) == Len(ByStatus(filtered, "done"))

\* the local calendar day of new Date("yyyy-mm-dd"), which is 00:00 UTC of
\* that date: the day before it in a zone behind UTC
localDay(due_date, tz) ==
    IF UtcOffset(tz, due_date) < 0 THEN PrevDay(due_date) ELSE due_date

\* t.due_date && isToday(new Date(t.due_date)) && t.status !== 'done',
\* with today the local calendar date of the client
dueTodayTasks(filtered, today, tz) ==
    Len(SelectSeq(filtered, LAMBDA t :
            /\ t.due_date # NoDate
            /\ localDay(t.due_date, tz) = today
            /\ t.status # "done"))

\* onChange of the two filter selects
setFilterTag(tag) ==
    /\ filterTag' = tag
    /\ UNCHANGED <<backend, fetches, faults, ops, local, ui, h, isModalOpen,
                   filterAssignee, dragState, dndKey>>

setFilterAssignee(assignee) ==
    /\ filterAssignee' = assignee
    /\ UNCHANGED <<backend, fetches, faults, ops, local, ui, h, isModalOpen,
                   filterTag, dragState, dndKey>>

(***************************************************************************)
(* The Board showing any table of up to MaxTasks tasks, which differ in    *)
(* tags, assignee, status and due date, while the user sets the filters.   *)
(***************************************************************************)
MaxTasks == 2       \* tasks of the table shown

Assignees == {"guilherme", "safira"}

\* the local dates a client can be at
Todays == {<<2024, 1, 14>>, <<2024, 1, 15>>}

ViewAttrs ==
    [tags : {NoTags, <<>>, <<"A">>, <<"A", "B">>},
     assignee : Assignees,
     status : TaskStatus,
     due_date : {NoDate, <<2024, 1, 15>>}]

ViewTask(id, attrs) ==
    [SeedRow(id, attrs.due_date, "none") EXCEPT
        !.tags = attrs.tags, !.assignee = attrs.assignee, !.status = attrs.status]

InitView ==
    \E n \in 0..MaxTasks :
        \E attrs \in [1..n -> ViewAttrs] :
            LET table == [i \in 1..n |-> ViewTask(i, attrs[i])] IN
            /\ db = table
            /\ tasks = table
            /\ nextId = n + 1
            /\ now = 1
            /\ activity_log = <<>>
            /\ channel = <<>>
            /\ fetches = <<>>
            /\ faults = 0
            /\ ops = 0
            /\ loading = FALSE
            /\ previousStatusRef =
                   [i \in 1..(MaxTasks + MaxOps) |->
                       IF i <= n THEN table[i].status ELSE undefined]
            /\ toasts = <<>>
            /\ confetti = [i \in 1..(MaxTasks + MaxOps) |-> 0]
            /\ h = Idle
            /\ InitialScreen

NextView ==
    \/ \E tag \in TagIds \cup {"all"} : setFilterTag(tag)
    \/ \E assignee \in Assignees \cup {"all"} : setFilterAssignee(assignee)

SpecView == InitView /\ [][NextView]_vars

(***************************************************************************)
(* Properties                                                              *)
(***************************************************************************)
\* C1: in every state, every row of the backend table and every record of
\* the Task Store has status = done if and only if completed_at is non-null.
C1_DoneIffCompletedAt ==
    LET DoneIffCompleted(t) == (t.status = "done") <=> (t.completed_at # NoTime)
    IN  /\ \A id \in DOMAIN db : DoneIffCompleted(db[id])
        /\ \A i \in 1..Len(tasks) : DoneIffCompleted(tasks[i])

\* C2: when the write of a drag move or of a form edit takes a task that
\* the Task Store shows as not done to done, the row it writes has
\* completed_at = the time of the write; when it takes a task that the Task
\* Store shows as done to a non-done status, the row it writes has
\* completed_at = null.  The rule is the same on both paths.
C2_TransitionStampsCompletedAt ==
    [][LET StampsTransition(from, to, row) ==
               /\ (from # "done" /\ to = "done")
                    => row.completed_at = row.updated_at
               /\ (from = "done" /\ to # "done") => row.completed_at = NoTime
       IN  /\ (h.pc \in {"drag_move", "drag_inserted", "drag_insertFailed"}
                  /\ h' = Idle /\ channel' # channel)
                => StampsTransition(h.activeTaskData.status, h.targetStatus,
                                    db'[h.activeId])
           /\ (h = Idle /\ h'.pc = "save_updated" /\ channel' # channel)
                => StampsTransition(h'.currentTask.status, h'.data.status,
                                    db'[h'.id])]_vars

\* C3: in a same-group reorder (a task dropped on another task of its own
\* status group), the positions the handler assigns to the group are
\* 0..n-1, one per task, in the order obtained by taking the dragged task
\* out of its index and putting it back at the index of the target task;
\* and every position write that takes effect stores the position assigned.
C3_ReorderIsListMove ==
    [][LET IdsOf(s) == [k \in 1..Len(s) |-> s[k].id]
           Without(s, i) ==
               [k \in 1..(Len(s) - 1) |-> IF k < i THEN s[k] ELSE s[k + 1]]
           Assigned(r) ==
               LET n == Len(r.columnTasks)
                   activeIndex == FindIndex(r.columnTasks, r.activeId)
                   overIndex == FindIndex(r.columnTasks, r.over.task)
               IN  /\ Len(r.updates) = n
                   /\ \A k \in 1..n : r.updates[k].position = k - 1
                   /\ r.updates[overIndex].id = r.activeId
                   /\ Without(IdsOf(r.updates), overIndex)
                        = Without(IdsOf(r.columnTasks), activeIndex)
       IN  /\ h'.pc = "drag_reorder" => Assigned(h')
           /\ (h.pc = "drag_reorder" /\ h' # h /\ channel' # channel)
                => LET update == h.updates[h.written + 1] IN
                   /\ db'[update.id].position = h.written
                   /\ \A id \in DOMAIN db' \ {update.id} : db'[id] = db[id]]_vars

\* a reorder of a group of three or more tasks over a distance of two or
\* more places, with its first position write made
C3_Witness ==
    /\ h.pc = "drag_reorder"
    /\ h.written >= 1
    /\ Len(h.columnTasks) >= 3
    /\ LET d == FindIndex(h.columnTasks, h.activeId)
                  - FindIndex(h.columnTasks, h.over.task)
       IN  d >= 2 \/ d <= -2

\* C4: a drop of a task onto itself changes nothing: the step of the drop
\* leaves the Task Store as it is, and the handler issues no backend write
\* and logs no activity entry.
C4_DropOnSelfIsNoOp ==
    [][/\ (h = Idle /\ h'.pc \in {"drag_move", "drag_reorder"}
              /\ h'.over.task = h'.activeId) => tasks' = tasks
       /\ (h.pc \in {"drag_move", "drag_reorder", "drag_inserted", "drag_insertFailed"}
              /\ h.over.task = h.activeId /\ h' # h)
            => UNCHANGED <<db, channel, activity_log>>]_vars

\* C5: the Task Store never holds two records with the same id.
C5_NoDuplicateIds ==
    \A i, j \in 1..Len(tasks) : i # j => tasks[i].id # tasks[j].id

\* C6: the delivery of an UPDATE notification leaves the Task Store as it
\* is when the record held for that id has the notification's updated_at;
\* otherwise it replaces the records of that id by the incoming row.  Either
\* way the records of other ids, and the ids of the store in their order,
\* are as before.
C6_UpdateDropsEchoElseReplaces ==
    [][(channel # <<>> /\ Head(channel).eventType = "UPDATE"
            /\ channel' = Tail(channel))
        => LET row == Head(channel).row IN
           /\ Len(tasks') = Len(tasks)
           /\ \A i \in 1..Len(tasks) :
                /\ tasks'[i].id = tasks[i].id
                /\ tasks[i].id # row.id => tasks'[i] = tasks[i]
           /\ IF \E i \in 1..Len(tasks) :
                    /\ tasks[i].id = row.id
                    /\ \A j \in 1..(i - 1) : tasks[j].id # row.id
                    /\ tasks[i].updated_at = row.updated_at
              THEN tasks' = tasks
              ELSE \A i \in 1..Len(tasks) :
                      tasks[i].id = row.id => tasks'[i] = row]_vars

\* every notification is delivered, no handler is running, and the store
\* holds a record with the updated_at of the backend row but another
\* position: the echo of a position write was dropped
C6_Witness ==
    /\ channel = <<>>
    /\ fetches = <<>>
    /\ h = Idle
    /\ \E i \in 1..Len(tasks) :
          /\ tasks[i].id \in DOMAIN db
          /\ tasks[i].updated_at = db[tasks[i].id].updated_at
          /\ tasks[i].position # db[tasks[i].id].position

\* C7: the delivery of an UPDATE notification never replaces a record of
\* the Task Store that carries a later write of this client (a larger
\* updated_at than the notification's) by the notification's older row.
C7_EchoNeverRegresses ==
    [][(channel # <<>> /\ Head(channel).eventType = "UPDATE"
            /\ channel' = Tail(channel))
        => LET row == Head(channel).row IN
           \A i \in 1..Len(tasks) :
              (tasks[i].id = row.id /\ tasks[i].updated_at > row.updated_at)
                => (Len(tasks') = Len(tasks) /\ tasks'[i] = tasks[i])]_vars

\* C8: when a handler has issued its first backend request (a write of the
\* task or of the activity log) the Task Store already shows the user's
\* action: the dragged task in its target column, the edited task with the
\* submitted status, the deleted task gone.
C8_OptimisticBeforeWrite ==
    [][h = Idle =>
        /\ h'.pc = "drag_move"
             => Find(tasks', h'.activeId).status = h'.targetStatus
        /\ h'.pc = "save_updated"
             => Find(tasks', h'.id).status = h'.data.status
        /\ h'.pc = "delete_logged"
             => ~HasId(tasks', h'.id)]_vars

\* C9: a successor is inserted only by a transition into done: never for a
\* task that both the Task Store and the backend table already held as done
\* when the handler began.
C9_SuccessorOnlyOnTransition ==
    [][/\ (h.pc = "drag_move" /\ h'.pc = "drag_inserted")
            => ~(/\ h.activeTaskData.status = "done"
                 /\ h.activeId \in DOMAIN db
                 /\ db[h.activeId].status = "done")
       /\ (h.pc = "save_updated" /\ h'.pc = "save_inserted")
            => h.currentTask.status # "done"]_vars

\* C10: the successor just inserted has the title, description, priority,
\* assignee, tags and recurrence of its source task as the backend table
\* holds it, status todo, the next due date of the source, and position =
\* (the largest position of the todo tasks of the Task Store) + 1, or 0 when
\* the store has no todo task.
C10_SuccessorCopiesSource ==
    h.pc \in {"drag_inserted", "save_inserted"} =>
        LET sourceId == IF h.pc = "drag_inserted" THEN h.activeId ELSE h.id
            todoTasks == ByStatus(h.tasks, "todo")
        IN  sourceId \in DOMAIN db =>
            LET source == db[sourceId] IN
            /\ h.newTask.title = source.title
            /\ h.newTask.description = source.description
            /\ h.newTask.priority = source.priority
            /\ h.newTask.assignee = source.assignee
            /\ h.newTask.tags = source.tags
            /\ h.newTask.recurrence = source.recurrence
            /\ h.newTask.status = "todo"
            /\ \E tz \in TimeZones :
                  h.newTask.due_date
                    = getNextDueDate(source.due_date, source.recurrence, tz)
            /\ h.newTask.position
                 = (IF Len(todoTasks) = 0 THEN 0 ELSE maxPosition(todoTasks) + 1)

\* C11: the due date of a successor is the due date of its source moved by
\* exactly one period of the calendar: the next day for daily, the seventh
\* day after for weekly (2024-01-01 gives 2024-01-08), the same day of the
\* next month or that month's last day for monthly (2024-01-31 gives
\* 2024-02-29), whatever the time zone of the client.
C11_NextDueDateIsCalendarCorrect ==
    h.pc \in {"drag_inserted", "save_inserted"} =>
        LET source == IF h.pc = "drag_inserted" THEN h.activeTaskData
                      ELSE h.currentTask
            d == source.due_date
            nextMonth == IF d[2] = 12 THEN <<d[1] + 1, 1>> ELSE <<d[1], d[2] + 1>>
            lastDay == DaysInMonth(nextMonth[1], nextMonth[2])
            expected ==
                IF source.recurrence = "daily" THEN NextDay(d)
                ELSE IF source.recurrence = "weekly"
                THEN NextDay(NextDay(NextDay(NextDay(NextDay(NextDay(NextDay(d)))))))
                ELSE <<nextMonth[1], nextMonth[2],
                       IF d[3] > lastDay THEN lastDay ELSE d[3]>>
        IN  /\ h.newTask.due_date = expected
            /\ (source.recurrence = "weekly" /\ d = <<2024, 1, 1>>)
                  => h.newTask.due_date = <<2024, 1, 8>>
            /\ (source.recurrence = "monthly" /\ d = <<2024, 1, 31>>)
                  => h.newTask.due_date = <<2024, 2, 29>>

\* C12: when the insert of the successor was rejected, the handler shows an
\* error notification, and the completion of the source stands: the update
\* of the drag, when it takes effect, stores status done with completed_at
\* set, and the row saved by the form edit is done with completed_at set.
C12_SuccessorFailureSurfaced ==
    [][/\ (h.pc \in {"drag_insertFailed", "save_insertFailed"} /\ h' # h)
            => \E k \in (Len(toasts) + 1)..Len(toasts') : toasts'[k].type = "error"
       /\ (h.pc = "drag_insertFailed" /\ h' # h /\ channel' # channel)
            => /\ db'[h.activeId].status = "done"
               /\ db'[h.activeId].completed_at # NoTime
       /\ (h.pc = "save_insertFailed" /\ h' # h /\ h.id \in DOMAIN db')
            => /\ db'[h.id].status = "done"
               /\ db'[h.id].completed_at # NoTime]_vars

\* C13: the celebration fires once per completion.  A task of the table that
\* was completed (done, with the completed_at a completing write stamps) and
\* has no UPDATE notification still to be delivered has had its celebration;
\* and, when no handler is running, no task has had more celebrations than
\* it has 'completed' entries in the activity log.
C13_ConfettiOncePerCompletion ==
    \A id \in DOMAIN db :
        LET pending == \E k \in 1..Len(channel) :
                          /\ channel[k].eventType = "UPDATE"
                          /\ channel[k].row.id = id
            completions == Cardinality({k \in 1..Len(activity_log) :
                                          /\ activity_log[k].task_id = id
                                          /\ activity_log[k].action = "completed"})
        IN  /\ (db[id].status = "done" /\ db[id].completed_at # NoTime /\ ~pending)
                  => confetti[id] >= 1
            /\ h = Idle => confetti[id] <= completions

\* C14: once every notification of the INSERT and the DELETE of a task has
\* been delivered, in whatever order and however often, the Task Store is
\* the one that delivering each once in backend order gives: one record for
\* each row of the table, equal to the row, and no other record.
C14_InsertDeleteConverge ==
    channel = <<>> =>
        /\ \A i \in 1..Len(tasks) :
              /\ tasks[i].id \in DOMAIN db
              /\ tasks[i] = db[tasks[i].id]
        /\ \A id \in DOMAIN db :
              Cardinality({i \in 1..Len(tasks) : tasks[i].id = id}) = 1

\* C15: an UPDATE notification applied a second time changes nothing: the
\* store its delivery leaves is one on which the handler does nothing for
\* that notification, because the first record of that id has the
\* notification's updated_at or because every record of that id is the
\* incoming row already.
C15_UpdateTwiceIsOnce ==
    [][(channel # <<>> /\ Head(channel).eventType = "UPDATE"
            /\ channel' = Tail(channel))
        => LET row == Head(channel).row IN
           \/ \A i \in 1..Len(tasks') : tasks'[i].id = row.id => tasks'[i] = row
           \/ \E i \in 1..Len(tasks') :
                 /\ tasks'[i].id = row.id
                 /\ \A j \in 1..(i - 1) : tasks'[j].id # row.id
                 /\ tasks'[i].updated_at = row.updated_at]_vars

\* an UPDATE notification has been applied and put its row into the store:
\* the celebration it fired is on record, the store holds the row of the
\* table, and nothing is left to deliver
C15_Witness ==
    /\ channel = <<>>
    /\ \E i \in 1..Len(tasks) :
          /\ confetti[tasks[i].id] >= 1
          /\ tasks[i].id \in DOMAIN db
          /\ tasks[i] = db[tasks[i].id]
          /\ tasks[i].status = "done"

\* C16: the delivery of a DELETE notification takes every record of that id
\* out of the Task Store and keeps every other record, in its order; a
\* store without that id is left as it is, and the store the delivery
\* leaves has no record of that id, so that a second delivery changes
\* nothing.
C16_DeleteRemovesOnlyThatId ==
    [][(channel # <<>> /\ Head(channel).eventType = "DELETE"
            /\ channel' = Tail(channel))
        => LET id == Head(channel).row.id
               removed(i) == Cardinality({j \in 1..i : tasks[j].id = id})
           IN  /\ Len(tasks') = Len(tasks) - removed(Len(tasks))
               /\ \A i \in 1..Len(tasks) :
                     tasks[i].id # id => tasks'[i - removed(i)] = tasks[i]
               /\ \A i \in 1..Len(tasks') : tasks'[i].id # id
               /\ removed(Len(tasks)) = 0 => tasks' = tasks]_vars

\* a task deleted from the board: its 'deleted' entry is logged, the row,
\* the record and the side-table entry are gone, other records remain, and
\* its DELETE notification has been delivered to a store without it
C16_Witness ==
    /\ channel = <<>>
    /\ h = Idle
    /\ tasks # <<>>
    /\ \E k \in 1..Len(activity_log) :
          LET id == activity_log[k].task_id IN
          /\ activity_log[k].action = "deleted"
          /\ id \notin DOMAIN db
          /\ ~HasId(tasks, id)
          /\ previousStatusRef[id] = undefined

\* C17: a task dropped on a column gets the status of the column, in the
\* Task Store at once (in the record that tasks.find gives for its id) and
\* in the write, and the position after the largest position of the tasks
\* the store holds in that column, or 0 when it holds none; the write, when
\* it takes effect, stores that status and that position.
C17_DropOnColumnAppends ==
    [][/\ (h = Idle /\ h'.pc = "drag_move" /\ h'.over.task = 0)
            => LET status == h'.over.column
                   group == {i \in 1..Len(tasks) : tasks[i].status = status}
                   position == h'.updates.position
               IN  /\ h'.updates.status = status
                   /\ Find(tasks', h'.activeId).status = status
                   /\ group = {} => position = 0
                   /\ group # {} =>
                         /\ \A i \in group : tasks[i].position < position
                         /\ \E i \in group : tasks[i].position + 1 = position
       /\ (h.pc \in {"drag_move", "drag_inserted", "drag_insertFailed"}
              /\ h.over.task = 0 /\ h' = Idle /\ channel' # channel)
            => /\ db'[h.activeId].status = h.over.column
               /\ db'[h.activeId].position = h.updates.position]_vars

\* a task dropped on a column that holds tasks with a gap in their
\* positions: it goes after the largest position, past the count
C17_Witness ==
    /\ h.pc = "drag_move"
    /\ h.over.task = 0
    /\ LET group == {i \in 1..Len(h.tasks) : h.tasks[i].status = h.over.column}
       IN  /\ group # {}
           /\ h.updates.position > Cardinality(group)

\* C18: a task dropped on a task of another status group gets the status
\* of that task, in the Task Store at once and in the write, and as its
\* position the index (from 0) of that task among the tasks the store
\* holds in that group, sorted by position (tasks of equal position in
\* store order); the write, when it takes effect, stores both.
C18_DropOnOtherGroupTask ==
    [][LET OtherGroup(r, store) ==
               /\ r.over.task # 0
               /\ \E j \in 1..Len(store) :
                     /\ store[j].id = r.over.task
                     /\ \A k \in 1..(j - 1) : store[k].id # r.over.task
                     /\ store[j].status # r.activeTaskData.status
       IN
       /\ (h = Idle /\ h'.pc = "drag_move" /\ OtherGroup(h', tasks))
            => \E j \in 1..Len(tasks) :
                 /\ tasks[j].id = h'.over.task
                 /\ \A k \in 1..(j - 1) : tasks[k].id # h'.over.task
                 /\ h'.updates.status = tasks[j].status
                 /\ \A i \in 1..Len(tasks') :
                       tasks'[i].id = h'.activeId => tasks'[i].status = tasks[j].status
                 /\ h'.updates.position =
                       Cardinality({i \in 1..Len(tasks) :
                           /\ tasks[i].status = tasks[j].status
                           /\ \/ tasks[i].position < tasks[j].position
                              \/ tasks[i].position = tasks[j].position /\ i < j})
       /\ (h.pc \in {"drag_move", "drag_inserted", "drag_insertFailed"}
              /\ OtherGroup(h, h.tasks) /\ h' = Idle /\ channel' # channel)
            => /\ db'[h.activeId].status = h.targetStatus
               /\ db'[h.activeId].position = h.updates.position]_vars

\* a task dropped on the second task of another group
C18_Witness ==
    /\ h.pc = "drag_move"
    /\ h.over.task # 0
    /\ h.targetStatus # h.activeTaskData.status
    /\ h.updates.position >= 1
    /\ h.updates.position < Cardinality({i \in 1..Len(h.tasks) :
                                           h.tasks[i].status = h.targetStatus})

C20_RejectedDeleteRefetches ==
    [][/\ (h.pc = "delete_logged" /\ h' = Idle /\ h.id \in DOMAIN db /\ db' = db)
            => /\ Len(fetches') = Len(fetches) + 1
               /\ SubSeq(fetches', 1, Len(fetches)) = fetches
               /\ LET response == fetches'[Len(fetches')] IN
                  ~response.error =>
                     /\ Len(response.data) = Cardinality(DOMAIN db)
                     /\ \A id \in DOMAIN db :
                           \E i \in 1..Len(response.data) : response.data[i] = db[id]
       /\ Len(fetches') = Len(fetches) - 1
            => \E k \in 1..Len(fetches) :
                  /\ fetches' = [i \in 1..Len(fetches') |->
                                    IF i < k THEN fetches[i] ELSE fetches[i + 1]]
                  /\ IF fetches[k].error THEN tasks' = tasks
                     ELSE tasks' = fetches[k].data]_vars

\* the delete of a task was rejected and the fetch has answered: the task
\* has its 'deleted' entry and the error was shown, and the store holds the
\* task again, with every other row of the table
C20_Witness ==
    /\ h = Idle
    /\ fetches = <<>>
    /\ \E k \in 1..Len(toasts) : toasts[k].message = "Erro ao eliminar tarefa"
    /\ \E k \in 1..Len(activity_log) :
          /\ activity_log[k].action = "deleted"
          /\ activity_log[k].task_id \in DOMAIN db
          /\ HasId(tasks, activity_log[k].task_id)
    /\ Len(tasks) = Cardinality(DOMAIN db)
    /\ \A id \in DOMAIN db : HasId(tasks, id)

\* C21: when the backend rejects the insert of quick-add or of the modal, or
\* the update of the modal, the handler shows an error notification, leaves
\* the Task Store as it was (no rollback, no re-fetch), logs no activity
\* and, if the modal is open, leaves it open.
C21_RejectedWriteLeavesStore ==
    [][(/\ h = Idle /\ h' = Idle
        /\ ops' = ops + 1
        /\ faults' = faults + 1
        /\ ~(fetches' = Append(fetches, FetchError) /\ toasts' = toasts))
         => /\ \E message \in {"Erro ao criar tarefa", "Erro ao atualizar tarefa"} :
                 toasts' = Append(toasts, Toast("error", message))
            /\ tasks' = tasks
            /\ previousStatusRef' = previousStatusRef
            /\ fetches' = fetches
            /\ activity_log' = activity_log
            /\ db' = db
            /\ isModalOpen' = isModalOpen]_vars

\* a create from the modal and then an edit in the modal were both
\* rejected: two error notifications, the loaded store, an empty activity
\* log, the modal still open
C21_Witness ==
    /\ toasts = <<Toast("error", "Erro ao criar tarefa"),
                  Toast("error", "Erro ao atualizar tarefa")>>
    /\ isModalOpen
    /\ h = Idle
    /\ tasks = <<SeedDb[1], SeedDb[2]>>
    /\ activity_log = <<>>
    /\ db = SeedDb
    /\ fetches = <<>>

\* C22: a submission whose title is empty or only white space, from the
\* modal or from quick-add, runs no save callback and sends no request:
\* every title in the backend table, in a notification and in the Task
\* Store is non-empty and has no leading or trailing white space.
C22_TitlesAreTrimmedNonEmpty ==
    LET Valid(title) ==
            title # <<>> /\ Head(title) # " " /\ title[Len(title)] # " "
    IN  /\ \A id \in DOMAIN db : Valid(db[id].title)
        /\ \A i \in 1..Len(tasks) : Valid(tasks[i].title)
        /\ \A k \in 1..Len(channel) :
               channel[k].eventType # "DELETE" => Valid(channel[k].row.title)

\* a task made with quick-add and a task whose title was retyped in the
\* modal: both rows carry the trimmed text
C22_Witness ==
    /\ 3 \in DOMAIN db
    /\ db[3].title = <<"A">>
    /\ db[3].recurrence = "none"
    /\ 1 \in DOMAIN db
    /\ db[1].title = <<"B">>
    /\ h = Idle

\* C23: when the response of a fetch (initial load or refresh) is an error,
\* the Task Store, the status side table and the loading flag stay as they
\* were: the data held persists and a loading indicator that shows is not
\* cleared.
C23_FailedFetchChangesNothing ==
    [][Len(fetches') = Len(fetches) - 1
         => \A k \in 1..Len(fetches) :
               (fetches' = RemoveAt(fetches, k) /\ fetches[k].error)
                  => /\ tasks' = tasks
                     /\ previousStatusRef' = previousStatusRef
                     /\ loading' = loading]_vars

\* a refresh failed and its response has come in while the initial load
\* is still pending: the indicator shows and the store is empty
C23_Witness ==
    /\ ops = 1
    /\ faults = 1
    /\ h = Idle
    /\ toasts = <<>>
    /\ Len(fetches) = 1
    /\ ~fetches[1].error
    /\ loading
    /\ tasks = <<>>

\* C24: when a handler that completes a recurring task finishes, the
\* activity log holds a 'completed' entry on the source task and, if the
\* successor was created, a 'created' entry on the successor whose details
\* name the source task; and a handler that has logged 'completed' for a
\* task finishes with that task's row at status done in the backend.
C24_CompletedLoggedOnlyForDone ==
    [][LET Logged(id, action) ==
               \E k \in 1..Len(activity_log') :
                   /\ activity_log'[k].task_id = id
                   /\ activity_log'[k].action = action
           LoggedFrom(id, source) ==
               \E k \in 1..Len(activity_log') :
                   /\ activity_log'[k].task_id = id
                   /\ activity_log'[k].action = "created"
                   /\ "from_task" \in DOMAIN activity_log'[k].details
                   /\ activity_log'[k].details.from_task = source
       IN  /\ (/\ h.pc \in {"drag_move", "drag_inserted", "drag_insertFailed"}
               /\ h' = Idle
               /\ h.targetStatus = "done" /\ h.originalStatus # "done")
                => /\ Logged(h.activeId, "completed")
                   /\ h.pc = "drag_inserted" => LoggedFrom(h.newTask.id, h.activeId)
                   /\ h.activeId \in DOMAIN db'
                   /\ db'[h.activeId].status = "done"
           /\ (/\ h.pc \in {"save_updated", "save_inserted", "save_insertFailed"}
               /\ h' = Idle
               /\ h.currentTask.status # "done" /\ h.data.status = "done")
                => /\ Logged(h.id, "completed")
                   /\ h.pc = "save_inserted" => LoggedFrom(h.newTask.id, h.id)
                   /\ h.id \in DOMAIN db'
                   /\ db'[h.id].status = "done"]_vars

\* C25: the filtered view holds, in the order of the store, exactly the
\* tasks that match both filters: the tag filter is "all" or a member of
\* the task's tag set (a task whose tags are null or empty has no member),
\* the assignee filter is "all" or the task's assignee; and setting a filter
\* leaves the Task Store as it is.
C25_FilteredIsBothMatches ==
    [][LET TagSet(t) ==
               IF t.tags = NoTags THEN {}
               ELSE {t.tags[i] : i \in 1..Len(t.tags)}
           Matches(t, assignee, tag) ==
               /\ tag = "all" \/ tag \in TagSet(t)
               /\ assignee = "all" \/ assignee = t.assignee
           Exact(store, assignee, tag) ==
               LET kept == {i \in 1..Len(store) : Matches(store[i], assignee, tag)}
                   f == filteredTasks(store, assignee, tag)
               IN  /\ Len(f) = Cardinality(kept)
                   /\ \A i \in kept :
                         f[Cardinality({j \in kept : j <= i})] = store[i]
       IN  /\ Exact(tasks, filterAssignee, filterTag)
           /\ Exact(tasks', filterAssignee', filterTag')
           /\ tasks' = tasks
           /\ db' = db]_vars

\* tag filter A on a store whose first task has tags A and B and whose
\* second task has null tags: the view is the first task alone
C25_Witness ==
    /\ filterTag = "A"
    /\ filterAssignee = "all"
    /\ Len(tasks) = 2
    /\ tasks[1].tags = <<"A", "B">>
    /\ tasks[2].tags = NoTags
    /\ filteredTasks(tasks, filterAssignee, filterTag) = <<tasks[1]>>

\* C26: the counts of the header are those of the filtered tasks: total is
\* their number, completed the number of them with status done (so
\* completed <= total), due-today the number of them that are not done and
\* whose due date is the client's current local calendar date, whatever
\* the client's time zone; and the three status groups partition the
\* filtered tasks.
C26_CountsAreOfFilteredTasks ==
    LET filtered == filteredTasks(tasks, filterAssignee, filterTag)
        Count(P(_)) == Cardinality({i \in 1..Len(filtered) : P(filtered[i])})
        IsDone(t) == t.status = "done"
        groups == tasksByStatus(filtered)
    IN  /\ totalTasks(filtered) = Len(filtered)
        /\ completedTasks(filtered) = Count(IsDone)
        /\ completedTasks(filtered) <= totalTasks(filtered)
        /\ Len(groups["todo"]) + Len(groups["in_progress"]) + Len(groups["done"])
              = totalTasks(filtered)
        /\ \A i \in 1..Len(filtered) :
              \E k \in 1..Len(groups[filtered[i].status]) :
                  groups[filtered[i].status][k] = filtered[i]
        /\ \A tz \in TimeZones, today \in Todays :
              LET IsDueToday(t) == t.due_date = today /\ t.status # "done"
              IN  dueTodayTasks(filtered, today, tz) = Count(IsDueToday)

\* C27: once a same-group reorder, the only operation of the session, has
\* had all its position writes accepted and all their UPDATE notifications
\* delivered, every task of the Task Store has the position of its row in
\* the backend.
C27_ReorderConverges ==
    (/\ ops = 1 /\ faults = 0 /\ dndKey = 1
     /\ h = Idle /\ channel = <<>> /\ fetches = <<>>
     /\ DOMAIN db = DOMAIN SeedDb
     /\ \A id \in DOMAIN db : db[id].updated_at = SeedDb[id].updated_at
     /\ \E id \in DOMAIN db : db[id].position # SeedDb[id].position)
        => \A i \in 1..Len(tasks) : tasks[i].position = db[tasks[i].id].position

\* C28: in every state, every task id of the Task Store has an entry in
\* the status side table previousStatusRef.
C28_StoreIdsAreTracked ==
    \A i \in 1..Len(tasks) : previousStatusRef[tasks[i].id] # undefined

\* a task made in this session has reached the store through its INSERT
\* notification, and a DELETE notification has removed another task and
\* its entry
C28_Witness ==
    /\ \E i \in 1..Len(tasks) :
          /\ tasks[i].id \notin DOMAIN SeedDb
          /\ previousStatusRef[tasks[i].id] = tasks[i].status
    /\ \E id \in DOMAIN SeedDb :
          /\ ~HasId(tasks, id)
          /\ previousStatusRef[id] = undefined
    /\ channel = <<>>
    /\ fetches = <<>>

\* C29: a same-group reorder (the branch of handleDragEnd that renumbers
\* the group) leaves the Task Store as it is, and each of its writes
\* changes the position column alone: status, completed_at and updated_at
\* of every row stay, no activity entry is logged and no task is inserted.
C29_ReorderWritesPositionOnly ==
    [][/\ (h = Idle /\ h'.pc = "drag_reorder")
            => /\ tasks' = tasks
               /\ db' = db
               /\ activity_log' = activity_log
       /\ (h.pc = "drag_reorder" /\ h' # h)
            => /\ tasks' = tasks
               /\ activity_log' = activity_log
               /\ DOMAIN db' = DOMAIN db
               /\ \A id \in DOMAIN db :
                     [db'[id] EXCEPT !.position = db[id].position] = db[id]]_vars

\* C30: a drag that ends outside every drop target, or whose dragged id is
\* not in the Task Store, starts no handler work: no backend write, no
\* notification, no activity entry, no fetch and no toast; the Task Store
\* and the status side table stay; the drag state is cleared and the drag
\* context is reset (dndKey + 1).
C30_DragEndOutsideIsNoOp ==
    [][(isDragging /\ ~isDragging' /\ h' = Idle)
         => /\ db' = db
            /\ channel' = channel
            /\ activity_log' = activity_log
            /\ fetches' = fetches
            /\ toasts' = toasts
            /\ tasks' = tasks
            /\ previousStatusRef' = previousStatusRef
            /\ activeTask' = 0
            /\ dndKey' = dndKey + 1]_vars

\* one drag has ended without a handler (no write, no entry, the context
\* reset once), and the task of the next drag has been removed from the
\* store by a DELETE notification while the card is held
C30_Witness ==
    /\ dndKey = 1
    /\ ops = 1
    /\ activity_log = <<>>
    /\ isDragging
    /\ ~HasId(tasks, activeTask)
    /\ h = Idle

====
